---- MODULE Spec2Model ----
(***************************************************************************)
(* A model of app/ummvar_gen.py: the rules that derive a UMM-Var record    *)
(* from one netCDF variable (class Variable), the record builder           *)
(* (Record.fill, process_variable), the loader of the CF standard-name     *)
(* table (_read_cfnames) and the traversal of the group tree               *)
(* (process_granule).                                                      *)
(*                                                                         *)
(* Python values are records tagged with their Python type.  A Python str  *)
(* is a sequence of one-character strings; a literal run of characters     *)
(* that the code only ever compares whole or as a whole prefix (an         *)
(* attribute name, a class name, a vocabulary term) is kept as one         *)
(* element of the sequence.                                                *)
(***************************************************************************)
EXTENDS Integers, Sequences, FiniteSets, TLC

VARIABLES
    catalog,    \* the parsed reference catalog handed to _read_cfnames
    cfnames,    \* Variable.cfnames, the table _read_cfnames built
    ncvar,      \* process_variable: the variable being converted
    meta,       \* process_variable: record.meta, in insertion order
    pidx,       \* process_variable: position in Variable.schema['properties']
    vstatus,    \* process_variable: "idle", "filling", "returned", "raised"
    file,       \* process_granule: the open Dataset
    stack,      \* process_granule: the activations of _ncgrp, innermost last
    heap,       \* the Python list objects alive, by identity
    nextRef,    \* the identity the next new list object gets
    returned,   \* per finished process_granule call: its file, its outcome
                \* and the groups it visited
    visited     \* the groups _ncgrp was entered for in the current call, in order

tables == <<catalog, cfnames>>

varState == <<ncvar, meta, pidx, vstatus>>

granuleState == <<file, stack, heap, nextRef, returned, visited>>

vars == <<catalog, cfnames, ncvar, meta, pidx, vstatus,
          file, stack, heap, nextRef, returned, visited>>

(***************************************************************************)
(* Python values                                                           *)
(***************************************************************************)
None == [type |-> "NoneType"]

Str(s) == [type |-> "str", chars |-> s]

Bytes(s) == [type |-> "bytes", chars |-> s]

Float(t) == [type |-> "float", nan |-> FALSE, tenths |-> t]

NaN == [type |-> "float", nan |-> TRUE, tenths |-> 0]

PyInt(n) == [type |-> "int", n |-> n]

NdArray(items) == [type |-> "ndarray", items |-> items]

List(items) == [type |-> "list", items |-> items]

Dict(map) == [type |-> "dict", map |-> map]

EmptyDict == Dict(<<>>)

\* An exception that leaves the function instead of a value.
Raise(exc) == [type |-> "raise", exc |-> exc]

IsRaise(v) == v.type = "raise"

\* bool(value), as `if value:` evaluates it.
Truthy(v) ==
    CASE v.type = "NoneType" -> FALSE
      [] v.type = "str"      -> v.chars # <<>>
      [] v.type = "bytes"    -> v.chars # <<>>
      [] v.type = "float"    -> v.nan \/ v.tenths # 0
      [] v.type = "int"      -> v.n # 0
      [] v.type = "list"     -> v.items # <<>>
      [] v.type = "dict"     -> DOMAIN v.map # {}
      [] OTHER               -> TRUE

(***************************************************************************)
(* str operations                                                          *)
(***************************************************************************)
StartsWith(s, p) == Len(s) >= Len(p) /\ SubSeq(s, 1, Len(p)) = p

\* s[k:]
SliceFrom(s, k) == SubSeq(s, k + 1, Len(s))

\* s.replace(a, b) for one-character a and b
Replace(s, a, b) == [i \in 1..Len(s) |-> IF s[i] = a THEN b ELSE s[i]]

UpperCase == <<"A","B","C","D","E","F","G","H","I","J","K","L","M",
               "N","O","P","Q","R","S","T","U","V","W","X","Y","Z">>

LowerCase == <<"a","b","c","d","e","f","g","h","i","j","k","l","m",
               "n","o","p","q","r","s","t","u","v","w","x","y","z">>

LowerChar(c) ==
    IF \E i \in 1..Len(UpperCase) : UpperCase[i] = c
    THEN LowerCase[CHOOSE i \in 1..Len(UpperCase) : UpperCase[i] = c]
    ELSE c

\* s.lower()
Lower(s) == [i \in 1..Len(s) |-> LowerChar(s[i])]

RECURSIVE LStrip(_)
LStrip(s) == IF s # <<>> /\ Head(s) = " " THEN LStrip(Tail(s)) ELSE s

RECURSIVE RStrip(_)
RStrip(s) ==
    IF s # <<>> /\ s[Len(s)] = " " THEN RStrip(SubSeq(s, 1, Len(s) - 1)) ELSE s

\* s.strip()
Strip(s) == RStrip(LStrip(s))

Digits == <<"0","1","2","3","4","5","6","7","8","9">>

RECURSIVE Join(_, _)
\* sep.join(parts)
Join(sep, parts) ==
    IF parts = <<>> THEN <<>>
    ELSE IF Len(parts) = 1 THEN parts[1]
    ELSE parts[1] \o sep \o Join(sep, Tail(parts))

\* str(value) == "nan"
StrIsNan(v) ==
    \/ v.type = "float" /\ v.nan
    \/ v.type = "str" /\ v.chars = <<"n","a","n">>

(***************************************************************************)
(* _txt_sanitize                                                           *)
(***************************************************************************)
\* str(i) of a one-digit integer element
StrOfItem(i) == <<Digits[i + 1]>>

_txt_sanitize(d) ==
    IF d.type \in {"ndarray", "list"}
    THEN Str(Join(<<" ">>, [i \in 1..Len(d.items) |-> StrOfItem(d.items[i])]))
    ELSE IF d.type = "str" THEN d
    ELSE Str(<<"str(", d.type, ")">>)

(***************************************************************************)
(* __datatypes__                                                           *)
(***************************************************************************)
VLTypeClass == "<class 'netCDF4._netCDF4.VLType'>"

CompoundTypeClass == "<class 'netCDF4._netCDF4.CompoundType'>"

EnumTypeClass == "<class 'netCDF4._netCDF4.EnumType'>"

\* The table in insertion order, which is the order .items() iterates in.
__datatypes__ == <<
    << <<"S","1">>, <<"N","C","_","S","T","R","I","N","G">> >>,
    << <<"i","1">>, <<"N","C","_","B","Y","T","E">> >>,
    << <<"u","1">>, <<"N","C","_","U","B","Y","T","E">> >>,
    << <<"i","2">>, <<"N","C","_","S","H","O","R","T">> >>,
    << <<"u","2">>, <<"N","C","_","U","S","H","O","R","T">> >>,
    << <<"i","4">>, <<"N","C","_","I","N","T">> >>,
    << <<"u","4">>, <<"N","C","_","U","I","N","T">> >>,
    << <<"i","8">>, <<"N","C","_","I","N","T","6","4">> >>,
    << <<"u","8">>, <<"N","C","_","U","I","N","T","6","4">> >>,
    << <<"f","4">>, <<"N","C","_","F","L","O","A","T">> >>,
    << <<"f","8">>, <<"N","C","_","D","O","U","B","L","E">> >>,
    << <<VLTypeClass, ":", " string type">>,
       <<"N","C","_","S","T","R","I","N","G">> >>,
    << <<CompoundTypeClass, ":">>, <<"N","C","_","U","B","Y","T","E">> >> >>

DatatypeKeys == {__datatypes__[i][1] : i \in 1..Len(__datatypes__)}

\* __datatypes__[key], for a key of the table
DatatypeAt(key) ==
    __datatypes__[CHOOSE i \in 1..Len(__datatypes__) : __datatypes__[i][1] = key][2]

(***************************************************************************)
(* A netCDF variable, as the rules see it:                                 *)
(*   name      ncvar.name                                                  *)
(*   group     ncvar.group(): its path, whether it has a parent, and the   *)
(*             attributes of the group IndexRanges reads                   *)
(*   attrs     the netCDF attributes, a function from the names in         *)
(*             ncvar.ncattrs() to values                                   *)
(*   datatype  ncvar.datatype: a numpy dtype (hasStr, with .str) or one    *)
(*             of the library's type objects (only its str())              *)
(*   dims      ncvar.get_dims()                                            *)
(***************************************************************************)
HasAttr(v, a) == a \in DOMAIN v.attrs

GetAttr(v, a) == v.attrs[a]

A_standard_name == <<"standard_name">>
A_long_name == <<"long_name">>
A_description == <<"description">>
A_comment == <<"comment">>
A_units == <<"units">>
A_valid_min == <<"valid_min">>
A_valid_max == <<"valid_max">>
A_scale_factor == <<"scale_factor">>
A_add_offset == <<"add_offset">>
A_FillValue == <<"_FillValue">>
A_missing_value == <<"missing_value">>
A_coverage_content_type == <<"coverage_content_type">>
A_flag_values == <<"flag", "_values">>
A_flag_meanings == <<"flag", "_meanings">>
A_flag_masks == <<"flag", "_masks">>

(***************************************************************************)
(* class Variable: one rule per schema property                            *)
(***************************************************************************)
\* _Name without the replacement of spaces
_NameKeepSpaces(v) ==
    IF v.group.path = <<"/">> THEN Str(v.name)
    ELSE Str(v.group.path \o <<"/">> \o v.name)

_Name(v) ==
    LET p == Replace(v.group.path, " ", "_")
    IN  IF p = <<"/">> THEN Str(v.name) ELSE Str(p \o <<"/">> \o v.name)

_StandardName(v) ==
    IF HasAttr(v, A_standard_name) THEN GetAttr(v, A_standard_name) ELSE None

\* Variable.cfnames[cfname]['description']: the value, or the exception
CfDescription(names, cfname) ==
    IF cfname.type # "str" \/ cfname.chars \notin DOMAIN names
    THEN Raise("KeyError")
    ELSE LET entry == names[cfname.chars]
         IN  IF entry.type = "dict"
             THEN IF A_description \in DOMAIN entry.map
                  THEN entry.map[A_description]
                  ELSE Raise("KeyError")
             ELSE Raise("TypeError")

FlagIdentifier(v, a, id) ==
    IF HasAttr(v, a)
    THEN << [Identifier |-> Str(<<id>>), Description |-> _txt_sanitize(GetAttr(v, a))] >>
    ELSE <<>>

_AdditionalIdentifiers(v, names) ==
    LET flags == FlagIdentifier(v, A_flag_values, "CF_Flag_Values")
                 \o FlagIdentifier(v, A_flag_meanings, "CF_Flag_Meanings")
                 \o FlagIdentifier(v, A_flag_masks, "CF_Flag_Masks")
        desc  == IF HasAttr(v, A_standard_name)
                 THEN CfDescription(names, GetAttr(v, A_standard_name))
                 ELSE None
        ai    == IF IsRaise(desc) \/ desc = None
                 THEN flags
                 ELSE Append(flags, [Identifier |-> Str(<<"CF_Standard_Description">>),
                                     Description |-> desc])
    IN  IF IsRaise(desc) /\ desc.exc \notin {"AttributeError", "KeyError"}
        THEN desc
        ELSE IF Len(ai) = 0 THEN None ELSE List(ai)

_LongName(v) ==
    IF HasAttr(v, A_long_name) THEN GetAttr(v, A_long_name) ELSE _Name(v)

_Definition(v) ==
    IF HasAttr(v, A_description) THEN GetAttr(v, A_description)
    ELSE IF HasAttr(v, A_comment) THEN GetAttr(v, A_comment)
    ELSE IF HasAttr(v, A_long_name) THEN GetAttr(v, A_long_name)
    ELSE Str(v.name)

_Units(v) == IF HasAttr(v, A_units) THEN GetAttr(v, A_units) ELSE None

RECURSIVE PrefixLookup(_, _)
\* the loop over __datatypes__.items() from entry i on; None when it runs out
PrefixLookup(text, i) ==
    IF i > Len(__datatypes__) THEN None
    ELSE IF StartsWith(text, __datatypes__[i][1])
         THEN Str(Lower(SliceFrom(__datatypes__[i][2], 3)))
         ELSE PrefixLookup(text, i + 1)

_DataType(v) ==
    IF ~v.datatype.hasStr
    THEN PrefixLookup(v.datatype.text, 1)
    ELSE LET dtype_str == SliceFrom(v.datatype.str, 1)
         IN  IF dtype_str \in DatatypeKeys
             THEN Str(Lower(SliceFrom(DatatypeAt(dtype_str), 3)))
             ELSE Raise("KeyError")

DimType(name) ==
    IF name = <<"t","i","m","e">> THEN "TIME_DIMENSION"
    ELSE IF StartsWith(name, <<"l","a","t">>) THEN "LATITUDE_DIMENSION"
    ELSE IF StartsWith(name, <<"l","o","n">>) THEN "LONGITUDE_DIMENSION"
    ELSE IF name = <<"n","j">> THEN "ALONG_TRACK_DIMENSION"
    ELSE IF name = <<"n","i">> THEN "CROSS_TRACK_DIMENSION"
    ELSE "OTHER"

_predict_dim_type(dim) ==
    [Name |-> Str(dim.name), Size |-> PyInt(dim.size),
     Type |-> Str(<<DimType(Lower(dim.name))>>)]

_Dimensions(v) == List([i \in 1..Len(v.dims) |-> _predict_dim_type(v.dims[i])])

_ValidRanges(v) ==
    IF HasAttr(v, A_valid_min) /\ HasAttr(v, A_valid_max)
    THEN List(<< [Min |-> GetAttr(v, A_valid_min), Max |-> GetAttr(v, A_valid_max)] >>)
    ELSE None

_Scale(v) ==
    IF HasAttr(v, A_scale_factor) THEN GetAttr(v, A_scale_factor) ELSE Float(10)

_Offset(v) ==
    IF HasAttr(v, A_add_offset) THEN GetAttr(v, A_add_offset) ELSE Float(0)

FillValueOf(v, a) ==
    IF HasAttr(v, a) /\ ~StrIsNan(GetAttr(v, a)) /\ GetAttr(v, a).type # "bytes"
    THEN List(<< [Value |-> GetAttr(v, a), Type |-> Str(<<"SCIENCE_FILLVALUE">>)] >>)
    ELSE None

\* _FillValues returning from the loop at the first attribute present
_FillValuesStopAtFirst(v) ==
    IF Lower(v.name) = <<"t","i","m","e">> THEN None
    ELSE IF HasAttr(v, A_FillValue) THEN FillValueOf(v, A_FillValue)
    ELSE FillValueOf(v, A_missing_value)

_FillValues(v) ==
    IF Lower(v.name) = <<"t","i","m","e">> THEN None
    ELSE IF FillValueOf(v, A_FillValue) # None THEN FillValueOf(v, A_FillValue)
    ELSE FillValueOf(v, A_missing_value)

\* The content-type enumeration of _VariableType.
VariableTypes == <<
    << <<"image">>, "SCIENCE_VARIABLE" >>,
    << <<"thematicClassification">>, "SCIENCE_VARIABLE" >>,
    << <<"physicalMeasurement">>, "SCIENCE_VARIABLE" >>,
    << <<"modelResult">>, "SCIENCE_VARIABLE" >>,
    << <<"auxiliaryInformation">>, "ANCILLARY_VARIABLE" >>,
    << <<"auxillaryInformation">>, "ANCILLARY_VARIABLE" >>,
    << <<"auxilliaryData">>, "ANCILLARY_VARIABLE" >>,
    << <<"qualityInformation">>, "QUALITY_VARIABLE" >>,
    << <<"qualityInformaion">>, "QUALITY_VARIABLE" >>,
    << <<"reference_information">>, "OTHER" >>,
    << <<"referenceInformation">>, "OTHER" >>,
    << <<"coordinate">>, "COORDINATE" >> >>

_VariableType(v) ==
    IF ~HasAttr(v, A_coverage_content_type) THEN None
    ELSE LET cct == GetAttr(v, A_coverage_content_type)
             key == IF cct.type = "str" THEN Strip(cct.chars) ELSE <<"str(", cct.type, ")">>
         IN  IF \E i \in 1..Len(VariableTypes) : VariableTypes[i][1] = key
             THEN Str(<<VariableTypes[CHOOSE i \in 1..Len(VariableTypes) :
                                        VariableTypes[i][1] = key][2]>>)
             ELSE Raise("KeyError")

_VariableSubType(v) ==
    IF \E a \in DOMAIN v.attrs : StartsWith(a, <<"flag">>)
    THEN Str(<<"SCIENCE_EVENTFLAG">>)
    ELSE LET dt == _DataType(v)
         IN  IF IsRaise(dt) THEN dt
             ELSE IF dt = Str(<<"c","h","a","r">>) THEN Str(<<"OTHER">>)
             ELSE None

(***************************************************************************)
(* _IndexRanges: _num_sanitize and float()                                 *)
(***************************************************************************)
G_lat_min == <<"geospatial_lat_min">>
G_lat_max == <<"geospatial_lat_max">>
G_lon_min == <<"geospatial_lon_min">>
G_lon_max == <<"geospatial_lon_max">>

IsDigit(c) == \E i \in 1..Len(Digits) : Digits[i] = c

DigitVal(c) == (CHOOSE i \in 1..Len(Digits) : Digits[i] = c) - 1

\* _num_sanitize.sub('', r): drop every character but digits, "." and "-"
_num_sanitize(s) == SelectSeq(s, LAMBDA c : IsDigit(c) \/ c = "." \/ c = "-")

RECURSIVE Number(_)
Number(ds) ==
    IF ds = <<>> THEN 0
    ELSE Number(SubSeq(ds, 1, Len(ds) - 1)) * 10 + DigitVal(ds[Len(ds)])

\* float(s), to one fractional digit; ValueError when s is no number
ParseFloat(s) ==
    LET neg  == s # <<>> /\ Head(s) = "-"
        body == IF neg THEN Tail(s) ELSE s
        dots == {i \in 1..Len(body) : body[i] = "."}
        dot  == IF dots = {} THEN Len(body) + 1 ELSE CHOOSE i \in dots : TRUE
        ip   == SubSeq(body, 1, dot - 1)
        fp   == SubSeq(body, dot + 1, Len(body))
        mag  == Number(ip) * 10 + (IF fp = <<>> THEN 0 ELSE DigitVal(fp[1]))
    IN  IF \/ Cardinality(dots) > 1
           \/ ip \o fp = <<>>
           \/ \E i \in 1..Len(ip \o fp) : ~IsDigit((ip \o fp)[i])
        THEN Raise("ValueError")
        ELSE Float(IF neg THEN 0 - mag ELSE mag)

GeoBound(r) == IF r.type = "str" THEN ParseFloat(_num_sanitize(r.chars)) ELSE r

_IndexRanges(v) ==
    LET grp == IF v.group.hasParent THEN v.group.parentAttrs ELSE v.group.attrs
    IN  IF ~({G_lat_min, G_lat_max, G_lon_min, G_lon_max} \subseteq DOMAIN grp)
        THEN None
        ELSE LET bounds == <<GeoBound(grp[G_lat_min]), GeoBound(grp[G_lat_max]),
                             GeoBound(grp[G_lon_min]), GeoBound(grp[G_lon_max])>>
             IN  IF \E i \in 1..4 : IsRaise(bounds[i])
                 THEN bounds[CHOOSE i \in 1..4 : IsRaise(bounds[i])
                                 /\ \A j \in 1..(i - 1) : ~IsRaise(bounds[j])]
                 ELSE Dict([LatRange |-> List(<<bounds[1], bounds[2]>>),
                            LonRange |-> List(<<bounds[3], bounds[4]>>)])

_MeasurementIdentifiers(v) == None

_umm_var == <<"https://cdn.earthdata.nasa.gov/umm", "/v", "ariable", "/v", "1.8.1">>

\* s.split(sep)[-1]
SplitLast(s, sep) ==
    LET at == {i \in 1..Len(s) : s[i] = sep}
    IN  IF at = {} THEN s
        ELSE SubSeq(s, (CHOOSE i \in at : \A j \in at : j <= i) + 1, Len(s))

_MetadataSpecification(v) ==
    Dict([URL |-> Str(_umm_var), Name |-> Str(<<"UMM-Var">>),
          Version |-> Str(SplitLast(_umm_var, "/v"))])

_SamplingIdentifiers(v) == None

_ScienceKeywords(v) == None

_Sets(v) ==
    List(<< [Name |-> Str(v.name), Type |-> Str(<<"General">>),
             Size |-> PyInt(1), Index |-> PyInt(1)] >>)

\* The names p for which class Variable has an attribute _p.
RuleNames ==
    {"Name", "StandardName", "AdditionalIdentifiers", "LongName", "Definition",
     "Units", "DataType", "Dimensions", "ValidRanges", "Scale", "Offset",
     "FillValues", "VariableType", "VariableSubType", "IndexRanges",
     "MeasurementIdentifiers", "MetadataSpecification", "SamplingIdentifiers",
     "ScienceKeywords", "Sets"}

\* getattr(self.profile, f"_{prop}")(data)
Rule(prop, v, names) ==
    CASE prop = "Name"                   -> _Name(v)
      [] prop = "StandardName"           -> _StandardName(v)
      [] prop = "AdditionalIdentifiers"  -> _AdditionalIdentifiers(v, names)
      [] prop = "LongName"               -> _LongName(v)
      [] prop = "Definition"             -> _Definition(v)
      [] prop = "Units"                  -> _Units(v)
      [] prop = "DataType"               -> _DataType(v)
      [] prop = "Dimensions"             -> _Dimensions(v)
      [] prop = "ValidRanges"            -> _ValidRanges(v)
      [] prop = "Scale"                  -> _Scale(v)
      [] prop = "Offset"                 -> _Offset(v)
      [] prop = "FillValues"             -> _FillValues(v)
      [] prop = "VariableType"           -> _VariableType(v)
      [] prop = "VariableSubType"        -> _VariableSubType(v)
      [] prop = "IndexRanges"            -> _IndexRanges(v)
      [] prop = "MeasurementIdentifiers" -> _MeasurementIdentifiers(v)
      [] prop = "MetadataSpecification"  -> _MetadataSpecification(v)
      [] prop = "SamplingIdentifiers"    -> _SamplingIdentifiers(v)
      [] prop = "ScienceKeywords"        -> _ScienceKeywords(v)
      [] prop = "Sets"                   -> _Sets(v)

(***************************************************************************)
(* class Record and process_variable                                       *)
(***************************************************************************)
\* Variable.schema['properties'], the property names of the UMM-Var 1.8.1
\* schema in the order the schema declares them.
SchemaProperties ==
    <<"Name", "StandardName", "LongName", "Definition", "AdditionalIdentifiers",
      "VariableType", "VariableSubType", "Units", "DataType", "Dimensions",
      "ValidRanges", "Scale", "Offset", "FillValues", "Sets",
      "MeasurementIdentifiers", "SamplingIdentifiers", "ScienceKeywords",
      "IndexRanges", "InstanceInformation", "RelatedURLs",
      "MetadataSpecification">>

\* record.meta is a dict: a sequence of its items in insertion order.
HasKey(m, p) == \E i \in 1..Len(m) : m[i].key = p

ValueAt(m, p) == m[CHOOSE i \in 1..Len(m) : m[i].key = p].value

\* self.meta[prop] = value
SetItem(m, p, value) ==
    IF HasKey(m, p)
    THEN [i \in 1..Len(m) |-> IF m[i].key = p THEN [key |-> p, value |-> value] ELSE m[i]]
    ELSE Append(m, [key |-> p, value |-> value])

\* `if value: self.meta[prop] = value`, or the exception the rule raised
SetIfValue(m, prop, value) ==
    IF IsRaise(value) THEN [exc |-> value.exc, meta |-> m]
    ELSE IF Truthy(value) THEN [exc |-> "", meta |-> SetItem(m, prop, value)]
    ELSE [exc |-> "", meta |-> m]

\* Record.fill: the dict after the call, or the exception the rule raised
fill(m, v, prop, names) ==
    IF prop \notin RuleNames
    THEN [exc |-> "", meta |-> m]
    ELSE SetIfValue(m, prop, Rule(prop, v, names))

RECURSIVE FillFrom(_, _, _, _)
\* the loop of process_variable from schema position i on, r being the
\* outcome of the fills before it
FillFrom(r, v, i, names) ==
    IF r.exc # "" \/ i > Len(SchemaProperties) THEN r
    ELSE FillFrom(fill(r.meta, v, SchemaProperties[i], names), v, i + 1, names)

\* process_variable(ncvar): record.meta, or the exception that left it
process_variable(v, names) == FillFrom([exc |-> "", meta |-> <<>>], v, 1, names)

(***************************************************************************)
(* _read_cfnames.  The parsed catalog is a sequence of <entry> elements,   *)
(* each with its id attribute and its child elements (tag, text); the text *)
(* of an empty element is None.                                            *)
(***************************************************************************)
\* str(t.text)
StrOf(text) == IF text = None THEN Str(<<"None">>) ELSE text

\* d[k] = value
DictSet(d, k, value) == [x \in DOMAIN d \cup {k} |-> IF x = k THEN value ELSE d[x]]

RECURSIVE StoreChildren(_, _)
\* for t in n.findall("*"): cf_standard_names[t.tag] = str(t.text)
StoreChildren(d, children) ==
    IF children = <<>> THEN d
    ELSE StoreChildren(DictSet(d, Head(children).tag, StrOf(Head(children).text)),
                       Tail(children))

RECURSIVE ReadEntries(_, _)
\* for n in xml.findall("entry"): cf_standard_names[id] = dict(); ...
ReadEntries(d, entries) ==
    IF entries = <<>> THEN d
    ELSE ReadEntries(StoreChildren(DictSet(d, Head(entries).id, EmptyDict),
                                   Head(entries).children),
                     Tail(entries))

_read_cfnames(xml) == ReadEntries(<<>>, xml)

(***************************************************************************)
(* Inputs: reference catalogs                                              *)
(***************************************************************************)
T_sst == <<"sea_surface_temperature">>
T_air == <<"air_temperature">>
T_ice == <<"sea_ice_thickness">>

Entry(id, units, description) ==
    [id |-> id,
     children |-> << [tag |-> <<"canonical_units">>, text |-> Str(<<units>>)],
                     [tag |-> A_description, text |-> description] >>]

SstEntry == Entry(T_sst, "K", Str(<<"The temperature of sea water near the surface.">>))

AirEntry == Entry(T_air, "K", Str(<<"The bulk temperature of the air.">>))

IceEntry == Entry(T_ice, "m", None)

Catalogs == { <<SstEntry, AirEntry, IceEntry>>, <<AirEntry, IceEntry, SstEntry>> }

\* The description the catalog gives for a term: None when the term is no
\* entry of the catalog or its description element is empty.
CatalogDescription(xml, term) ==
    IF \E i \in 1..Len(xml) : xml[i].id = term
    THEN LET e == xml[CHOOSE i \in 1..Len(xml) : xml[i].id = term]
         IN  e.children[CHOOSE j \in 1..Len(e.children) :
                            e.children[j].tag = A_description].text
    ELSE None

(***************************************************************************)
(* Inputs: variables.  A variable differs from a plain root-level float    *)
(* variable "sst" in at most MaxAspects of the aspects below.              *)
(***************************************************************************)
MaxAspects == 2

Dtype(s) == [hasStr |-> TRUE, str |-> s, text |-> <<>>]

TypeObject(text) == [hasStr |-> FALSE, str |-> <<>>, text |-> text]

NameAlts == << <<"s","s","t">>, <<"t","i","m","e">>, <<"T","i","m","e">> >>

\* group paths: the root, a child of the root, a grandchild
PathAlts == << <<"/">>, <<"/","a"," ","b">>, <<"/","a"," ","b","/","c"," ","d">> >>

DatatypeAlts == <<
    Dtype(<<"<","f","4">>),
    Dtype(<<"|","S","1">>),
    Dtype(<<"<","i","2">>),
    Dtype(<<"<","f","2">>),
    TypeObject(<<VLTypeClass, ":", " string type">>),
    TypeObject(<<VLTypeClass, ":", " name = 'vlen_t', numpy dtype = int32">>),
    TypeObject(<<CompoundTypeClass, ":", " name = 'wind_t'">>),
    TypeObject(<<EnumTypeClass, ":", " name = 'flag_t', numpy dtype = uint8">>) >>

\* per attribute aspect: the attribute name and the values it may take
AttrAlts == [
    long_name     |-> [a |-> A_long_name,
                       vals |-> << Str(<<>>), Str(<<"Sea Surface Temp">>) >>],
    FillValue     |-> [a |-> A_FillValue,
                       vals |-> << NaN, Bytes(<<"x">>), Float(-99990),
                                   Str(<<"n","a","n">>) >>],
    missing_value |-> [a |-> A_missing_value,
                       vals |-> << NaN, Float(-327680) >>],
    add_offset    |-> [a |-> A_add_offset, vals |-> << Float(0), Float(25) >>],
    scale_factor  |-> [a |-> A_scale_factor, vals |-> << Float(0), Float(1) >>],
    standard_name |-> [a |-> A_standard_name,
                       vals |-> << Str(T_sst), Str(T_ice), Str(<<"not_a_cf_name">>),
                                   Str(A_description) >>],
    flag_values   |-> [a |-> A_flag_values, vals |-> << NdArray(<<0, 1, 2>>) >>],
    flag_meanings |-> [a |-> A_flag_meanings, vals |-> << Str(<<"good bad">>) >>],
    content_type  |-> [a |-> A_coverage_content_type,
                       vals |-> << Str(<<"coordinate">>), Str(<<" ", "image", " ">>),
                                   Str(<<"bogus">>) >>],
    comment       |-> [a |-> A_comment, vals |-> << Str(<<"a comment">>) >>],
    units         |-> [a |-> A_units, vals |-> << Str(<<"K">>), Str(<<>>) >>],
    valid_min     |-> [a |-> A_valid_min, vals |-> << Float(0) >>],
    valid_max     |-> [a |-> A_valid_max, vals |-> << Float(400) >>] ]

GeoAlts == <<
    <<>>,
    (G_lat_min :> Float(-900)) @@ (G_lat_max :> Float(900))
        @@ (G_lon_min :> Float(-1800)) @@ (G_lon_max :> Float(1800)),
    (G_lat_min :> Str(<<"3","4",".","5","N">>)) @@ (G_lat_max :> Float(900))
        @@ (G_lon_min :> Str(<<"1","2","0",".","0","W">>)) @@ (G_lon_max :> Float(1800)) >>

DimsAlts == <<
    <<>>,
    << [name |-> <<"T","i","m","e">>, size |-> 1],
       [name |-> <<"l","a","t">>, size |-> 2],
       [name |-> <<"n","v">>, size |-> 2] >> >>

\* aspect -> the number of values other than the default
Aspects ==
    [a \in DOMAIN AttrAlts |-> Len(AttrAlts[a].vals)]
    @@ [name |-> Len(NameAlts) - 1, path |-> Len(PathAlts) - 1,
        datatype |-> Len(DatatypeAlts) - 1, geo |-> Len(GeoAlts) - 1,
        dims |-> Len(DimsAlts) - 1]

\* the choices: for at most MaxAspects aspects, which other value it takes
Choices ==
    UNION { {c \in [S -> 1..Len(DatatypeAlts)] : \A a \in S : c[a] <= Aspects[a]} :
            S \in {S \in SUBSET DOMAIN Aspects : Cardinality(S) <= MaxAspects} }

Pick(c, a) == IF a \in DOMAIN c THEN c[a] ELSE 0

RECURSIVE AttrsOf(_, _)
AttrsOf(c, rest) ==
    IF rest = {} THEN <<>>
    ELSE LET a == CHOOSE x \in rest : TRUE
         IN  AttrsOf(c, rest \ {a}) @@ (AttrAlts[a].a :> AttrAlts[a].vals[c[a]])

\* the variable a choice describes; the geospatial attributes sit on the
\* root group of the file
BuildVar(c) ==
    LET path == PathAlts[Pick(c, "path") + 1]
        geo  == GeoAlts[Pick(c, "geo") + 1]
    IN  [name     |-> NameAlts[Pick(c, "name") + 1],
         group    |-> [path |-> path,
                       hasParent |-> path # <<"/">>,
                       attrs |-> IF path = PathAlts[1] THEN geo ELSE <<>>,
                       parentAttrs |-> IF path = PathAlts[2] THEN geo ELSE <<>>],
         attrs    |-> AttrsOf(c, DOMAIN c \cap DOMAIN AttrAlts),
         datatype |-> DatatypeAlts[Pick(c, "datatype") + 1],
         dims     |-> DimsAlts[Pick(c, "dims") + 1]]

NcVars == {BuildVar(c) : c \in Choices}

NoVar == BuildVar(<<>>)

(***************************************************************************)
(* Inputs: files.  A file is a tree of at most MaxGroups groups: group 1   *)
(* is the root, parent[g] < g, and x.groups lists the children of a group  *)
(* in the order the file holds them, here by number.  Each group holds one *)
(* of a few lists of variables.                                            *)
(***************************************************************************)
MaxGroups == 3

MaxCalls == 2

\* kinds of variable: A and B convert; X has an element type code outside
\* the table; E is of an enumerated type; K has an unknown content type
VarLists == { <<>>, <<"A">>, <<"B">>, <<"A", "B">>, <<"A", "X">>, <<"E">>, <<"K", "A">> }

CallVarLists == { <<"A">>, <<"A", "X">> }

ParentMaps(n) ==
    {p \in [1..n -> 0..n] : p[1] = 0 /\ \A g \in 2..n : p[g] >= 1 /\ p[g] < g}

FilesOf(maxGroups, lists) ==
    UNION { { [n |-> n, parent |-> p, vars |-> vs] :
              p \in ParentMaps(n), vs \in [1..n -> lists] } : n \in 1..maxGroups }

Files == FilesOf(MaxGroups, VarLists)

\* the files of the runs with several calls: trees one group smaller
CallFiles == FilesOf(MaxGroups - 1, CallVarLists)

NoFile == [n |-> 0, parent |-> <<>>, vars |-> <<>>]

\* list(x.groups) of group g
Children(f, g) ==
    LET kids == {c \in 1..f.n : f.parent[c] = g}
        Rank(c) == Cardinality({d \in kids : d < c})
    IN  [i \in 1..Cardinality(kids) |-> CHOOSE c \in kids : Rank(c) = i - 1]

GroupName(g) == IF g = 2 THEN <<"a", " ", "b">> ELSE <<"g", Digits[g + 1]>>

RECURSIVE GroupPath(_, _)
\* Group.path
GroupPath(f, g) ==
    IF g = 1 THEN <<"/">>
    ELSE IF f.parent[g] = 1 THEN <<"/">> \o GroupName(g)
    ELSE GroupPath(f, f.parent[g]) \o <<"/">> \o GroupName(g)

KindAttrs(kind) ==
    CASE kind = "B" -> (A_long_name :> Str(<<"Sea Surface Temp">>))
                       @@ (A_FillValue :> Float(-99990))
      [] kind = "K" -> (A_coverage_content_type :> Str(<<"bogus">>))
      [] OTHER      -> <<>>

KindDatatype(kind) ==
    CASE kind = "B" -> Dtype(<<"|","S","1">>)
      [] kind = "X" -> Dtype(<<"<","f","2">>)
      [] kind = "E" -> TypeObject(<<EnumTypeClass, ":", " name = 'flag_t', numpy dtype = uint8">>)
      [] OTHER      -> Dtype(<<"<","f","4">>)

\* x.variables[variable]: the i-th variable of group g
VarAt(f, g, i) ==
    [name     |-> <<f.vars[g][i]>>,
     group    |-> [path |-> GroupPath(f, g), hasParent |-> g # 1,
                   attrs |-> <<>>, parentAttrs |-> <<>>],
     attrs    |-> KindAttrs(f.vars[g][i]),
     datatype |-> KindDatatype(f.vars[g][i]),
     dims     |-> <<>>]

(***************************************************************************)
(* process_variable, one Record.fill per step                              *)
(***************************************************************************)
GranuleIdle ==
    /\ file = NoFile /\ stack = <<>> /\ heap = <<>> /\ nextRef = 1
    /\ returned = <<>> /\ visited = <<>>

InitVar ==
    /\ catalog \in Catalogs
    /\ cfnames = _read_cfnames(catalog)
    /\ ncvar \in NcVars
    /\ meta = <<>>
    /\ pidx = 1
    /\ vstatus = "filling"
    /\ GranuleIdle

\* record.fill(data=ncvar, prop=p) returns
RecordFill ==
    /\ vstatus = "filling" /\ pidx <= Len(SchemaProperties)
    /\ LET r == fill(meta, ncvar, SchemaProperties[pidx], cfnames)
       IN  /\ r.exc = ""
           /\ meta' = r.meta
           /\ pidx' = pidx + 1
    /\ UNCHANGED <<tables, ncvar, vstatus, granuleState>>

\* record.fill(data=ncvar, prop=p) raises: the exception leaves process_variable
RecordFillRaise ==
    /\ vstatus = "filling" /\ pidx <= Len(SchemaProperties)
    /\ fill(meta, ncvar, SchemaProperties[pidx], cfnames).exc # ""
    /\ vstatus' = "raised"
    /\ UNCHANGED <<tables, ncvar, meta, pidx, granuleState>>

\* return record.meta
ProcessVariableReturn ==
    /\ vstatus = "filling" /\ pidx > Len(SchemaProperties)
    /\ vstatus' = "returned"
    /\ UNCHANGED <<tables, ncvar, meta, pidx, granuleState>>

NextVar == RecordFill \/ RecordFillRaise \/ ProcessVariableReturn

SpecVar == InitVar /\ [][NextVar]_vars

(***************************************************************************)
(* process_granule.  Each activation of _ncgrp is a frame: its group x,    *)
(* the next child group (ci) and the next variable (vi) of its two loops,  *)
(* and the list object its name `records` is bound to.                     *)
(***************************************************************************)
\* _ncgrp defined once, at module level: one default list for every call
DefineNcgrpOnce(h, n) ==
    [default |-> 1,
     heap |-> IF 1 \in DOMAIN h THEN h ELSE h @@ (1 :> <<>>),
     next |-> IF n = 1 THEN n + 1 ELSE n]

\* `def _ncgrp(x, records: list=[])`: executing the def creates the default
\* list, a new object each time process_granule runs.
DefineNcgrp(h, n) == [default |-> n, heap |-> h @@ (n :> <<>>), next |-> n + 1]

Frame(x, records) == [x |-> x, ci |-> 1, vi |-> 1, records |-> records]

Top == stack[Len(stack)]

\* _ncgrp with the loop over the variables before the loop over the groups
PhaseVariablesFirst(fr) ==
    IF fr.vi <= Len(file.vars[fr.x]) THEN "variables"
    ELSE IF fr.ci <= Len(Children(file, fr.x)) THEN "groups"
    ELSE "return"

\* where an activation of _ncgrp stands: the loop over the child groups
\* comes first, then the loop over the variables, then the return
Phase(fr) ==
    IF fr.ci <= Len(Children(file, fr.x)) THEN "groups"
    ELSE IF fr.vi <= Len(file.vars[fr.x]) THEN "variables"
    ELSE "return"

VarIdle == ncvar = NoVar /\ meta = <<>> /\ pidx = 1 /\ vstatus = "idle"

Init ==
    /\ catalog \in Catalogs
    /\ cfnames = _read_cfnames(catalog)
    /\ VarIdle
    /\ GranuleIdle

\* process_granule(ncfile) is called: the def, Dataset(...), _ncgrp(ds)
ProcessGranule(files, limit) ==
    /\ stack = <<>> /\ Len(returned) < limit
    /\ \E f \in files :
         LET d == DefineNcgrp(heap, nextRef)
         IN  /\ file' = f
             /\ heap' = d.heap
             /\ nextRef' = d.next
             /\ stack' = <<Frame(1, d.default)>>
             /\ visited' = <<1>>
    /\ UNCHANGED <<tables, varState, returned>>

\* records = _ncgrp(groups[group], records=records): the call
NcgrpRecurse ==
    /\ stack # <<>> /\ Phase(Top) = "groups"
    /\ LET child == Children(file, Top.x)[Top.ci]
       IN  /\ stack' = Append(stack, Frame(child, Top.records))
           /\ visited' = Append(visited, child)
    /\ UNCHANGED <<tables, varState, file, heap, nextRef, returned>>

\* records.append(process_variable(variables[variable]))
NcgrpAppend ==
    /\ stack # <<>> /\ Phase(Top) = "variables"
    /\ LET r == process_variable(VarAt(file, Top.x, Top.vi), cfnames)
       IN  /\ r.exc = ""
           /\ heap' = [heap EXCEPT ![Top.records] = Append(@, r.meta)]
           /\ stack' = [stack EXCEPT ![Len(stack)].vi = @ + 1]
    /\ UNCHANGED <<tables, varState, file, nextRef, returned, visited>>

\* process_variable raises: no except clause matches (only OSError is
\* caught), the with block closes the file, process_granule raises
NcgrpRaise ==
    /\ stack # <<>> /\ Phase(Top) = "variables"
    /\ LET r == process_variable(VarAt(file, Top.x, Top.vi), cfnames)
       IN  /\ r.exc # ""
           /\ returned' = Append(returned,
                  [file |-> file, outcome |-> "raised", exc |-> r.exc, list |-> 0,
                   visited |-> visited])
    /\ stack' = <<>>
    /\ file' = NoFile
    /\ UNCHANGED <<tables, varState, heap, nextRef, visited>>

\* return records, to the activation that called: records = <the result>
NcgrpReturn ==
    /\ Len(stack) > 1 /\ Phase(Top) = "return"
    /\ stack' = [SubSeq(stack, 1, Len(stack) - 1) EXCEPT
                    ![Len(stack) - 1].records = Top.records,
                    ![Len(stack) - 1].ci = @ + 1]
    /\ UNCHANGED <<tables, varState, file, heap, nextRef, returned, visited>>

\* return records, from the outermost activation and from process_granule
ProcessGranuleReturn ==
    /\ Len(stack) = 1 /\ Phase(Top) = "return"
    /\ returned' = Append(returned,
           [file |-> file, outcome |-> "returned", exc |-> "", list |-> Top.records,
            visited |-> visited])
    /\ stack' = <<>>
    /\ file' = NoFile
    /\ UNCHANGED <<tables, varState, heap, nextRef, visited>>

\* one process_granule call per process, as main makes it
CallOnce == ProcessGranule(Files, 1)

Next ==
    \/ CallOnce
    \/ NcgrpRecurse
    \/ NcgrpAppend
    \/ NcgrpRaise
    \/ NcgrpReturn
    \/ ProcessGranuleReturn

Spec == Init /\ [][Next]_vars

\* up to MaxCalls process_granule calls in one process
CallAgain == ProcessGranule(CallFiles, MaxCalls)

NextCalls ==
    \/ CallAgain
    \/ NcgrpRecurse
    \/ NcgrpAppend
    \/ NcgrpRaise
    \/ NcgrpReturn
    \/ ProcessGranuleReturn

SpecCalls == Init /\ [][NextCalls]_vars

(***************************************************************************)
(* Properties of process_variable (SpecVar)                                *)
(***************************************************************************)
\* the field of the record process_variable built, None when it has none
Field(p) == IF HasKey(meta, p) THEN ValueAt(meta, p) ELSE None

\* the element type is no key of __datatypes__ and its text starts with
\* neither of the two entries for type objects
Unmapped(v) ==
    IF v.datatype.hasStr
    THEN \A i \in 1..Len(__datatypes__) : __datatypes__[i][1] # Tail(v.datatype.str)
    ELSE /\ ~StartsWith(v.datatype.text, <<VLTypeClass, ":", " string type">>)
         /\ ~StartsWith(v.datatype.text, <<CompoundTypeClass, ":">>)

\* C1: a variable whose element type is not in the datatype table is never
\* converted: process_variable returns no record for it, and no record
\* process_variable returns lacks DataType.
C1_UnmappedTypeIsHardError ==
    /\ Unmapped(ncvar) => vstatus # "returned"
    /\ vstatus = "returned" => HasKey(meta, "DataType")

\* C2 as stated: Name is the local name for a variable of the root group,
\* and "a_b/<name>" for a variable of the group with path "/a b".
C2_NameWithoutLeadingSlash ==
    vstatus = "returned" =>
        /\ ncvar.group.path = <<"/">> => Field("Name") = Str(ncvar.name)
        /\ ncvar.group.path = <<"/", "a", " ", "b">> =>
               Field("Name") = Str(<<"a", "_", "b", "/">> \o ncvar.name)

\* C2 amended: Name is the local name for a variable of the root group;
\* for any other group it is the group path, leading "/" included, with
\* each space replaced by "_", then "/", then the local name, so that a
\* variable of the group with path "/a b" gets "/a_b/<name>".
C2_NameKeepsLeadingSlash ==
    vstatus = "returned" =>
        LET p == ncvar.group.path
            n == Field("Name").chars
        IN  /\ HasKey(meta, "Name")
            /\ p = <<"/">> => n = ncvar.name
            /\ p # <<"/">> =>
                 /\ Len(n) = Len(p) + 1 + Len(ncvar.name)
                 /\ \A i \in 1..Len(p) : n[i] = IF p[i] = " " THEN "_" ELSE p[i]
                 /\ n[Len(p) + 1] = "/"
                 /\ SubSeq(n, Len(p) + 2, Len(n)) = ncvar.name
            /\ p = <<"/", "a", " ", "b">> =>
                 n = <<"/", "a", "_", "b", "/">> \o ncvar.name

C2_Witness ==
    /\ vstatus = "returned"
    /\ ncvar.group.path = <<"/", "a", " ", "b">>
    /\ Field("Name") = Str(<<"/", "a", "_", "b", "/", "s", "s", "t">>)

\* not null and not an empty string, list or mapping
NonEmpty(value) ==
    /\ value # None
    /\ value # Str(<<>>)
    /\ value # List(<<>>)
    /\ value # EmptyDict

\* C4: the record process_variable returns holds a property of the schema
\* exactly when there is a rule for it and the rule's result is non-empty
\* (not null, not an empty string, list or mapping), the Offset default 0.0
\* included.
C4_PresentIffNonEmpty ==
    vstatus = "returned" =>
        \A i \in 1..Len(SchemaProperties) :
            LET p == SchemaProperties[i]
            IN  HasKey(meta, p) <=>
                    (p \in RuleNames /\ NonEmpty(Rule(p, ncvar, cfnames)))

\* C5: every record process_variable returns has LongName: the long_name
\* attribute when the variable has it, whatever its value, and otherwise the
\* result of the Name rule.
C5_LongNameNeverAbsent ==
    vstatus = "returned" =>
        /\ HasKey(meta, "LongName")
        /\ Field("LongName") = IF HasAttr(ncvar, A_long_name)
                               THEN GetAttr(ncvar, A_long_name)
                               ELSE Field("Name")

IsTime(v) == Lower(v.name) = <<"t", "i", "m", "e">>

\* the attribute is present with a value that is neither bytes nor NaN, NaN
\* being a value whose text is "nan"
Usable(v, a) ==
    /\ a \in DOMAIN v.attrs
    /\ v.attrs[a].type # "bytes"
    /\ ~(v.attrs[a].type = "float" /\ v.attrs[a].nan)
    /\ v.attrs[a] # Str(<<"n", "a", "n">>)

FillValueList(value) ==
    List(<< [Value |-> value, Type |-> Str(<<"SCIENCE_FILLVALUE">>)] >>)

\* C6 as stated: for a variable not named time, FillValues is decided by
\* the first attribute present of _FillValue, missing_value: absent when
\* its value is NaN or bytes, whatever missing_value holds, and otherwise
\* [{Value, Type}] with its value; absent for a variable named time.
C6_StopsAtFirstPresent ==
    vstatus = "returned" =>
        IF IsTime(ncvar) THEN ~HasKey(meta, "FillValues")
        ELSE IF HasAttr(ncvar, A_FillValue)
             THEN IF Usable(ncvar, A_FillValue)
                  THEN Field("FillValues") = FillValueList(ncvar.attrs[A_FillValue])
                  ELSE ~HasKey(meta, "FillValues")
        ELSE IF Usable(ncvar, A_missing_value)
             THEN Field("FillValues") = FillValueList(ncvar.attrs[A_missing_value])
        ELSE ~HasKey(meta, "FillValues")

\* C6 amended: for a variable not named time, FillValues is [{Value, Type}]
\* with the value of the first of _FillValue, missing_value that is present
\* with a value that is neither NaN nor bytes: a _FillValue that is NaN or
\* bytes does not stop the search, missing_value is tried next; FillValues
\* is absent when neither has such a value, and for a variable named time.
C6_FirstUsableAttribute ==
    vstatus = "returned" =>
        IF IsTime(ncvar) THEN ~HasKey(meta, "FillValues")
        ELSE IF Usable(ncvar, A_FillValue)
             THEN Field("FillValues") = FillValueList(ncvar.attrs[A_FillValue])
        ELSE IF Usable(ncvar, A_missing_value)
             THEN Field("FillValues") = FillValueList(ncvar.attrs[A_missing_value])
        ELSE ~HasKey(meta, "FillValues")

C6_Witness ==
    /\ vstatus = "returned"
    /\ ~IsTime(ncvar)
    /\ HasAttr(ncvar, A_FillValue) /\ GetAttr(ncvar, A_FillValue) = NaN
    /\ Field("FillValues") = FillValueList(Float(-327680))

\* C8: VariableSubType is SCIENCE_EVENTFLAG when an attribute name starts
\* with "flag"; otherwise OTHER when DataType is the string type; otherwise
\* absent.
C8_VariableSubType ==
    vstatus = "returned" =>
        Field("VariableSubType") =
            IF \E a \in DOMAIN ncvar.attrs : Head(a) = "flag"
            THEN Str(<<"SCIENCE_EVENTFLAG">>)
            ELSE IF Field("DataType") = Str(<<"s", "t", "r", "i", "n", "g">>)
                 THEN Str(<<"OTHER">>)
                 ELSE None

\* the CF_Standard_Description entries of AdditionalIdentifiers
StandardDescriptions ==
    IF HasKey(meta, "AdditionalIdentifiers")
    THEN SelectSeq(Field("AdditionalIdentifiers").items,
                   LAMBDA e : e.Identifier = Str(<<"CF_Standard_Description">>))
    ELSE <<>>

IsTerm(xml, name) == \E i \in 1..Len(xml) : xml[i].id = name

\* C9: for a variable whose standard_name is a term of the catalog with a
\* description, AdditionalIdentifiers holds a CF_Standard_Description entry
\* with that description; for a standard_name that is no term of the
\* catalog there is no such entry and the rule raises nothing.
C9_StandardDescription ==
    HasAttr(ncvar, A_standard_name) =>
        LET name == GetAttr(ncvar, A_standard_name).chars
        IN  /\ (vstatus = "returned" /\ CatalogDescription(catalog, name) # None) =>
                   StandardDescriptions =
                       << [Identifier |-> Str(<<"CF_Standard_Description">>),
                           Description |-> CatalogDescription(catalog, name)] >>
            /\ ~IsTerm(catalog, name) =>
                   /\ vstatus = "returned" => StandardDescriptions = <<>>
                   /\ ~(vstatus = "raised"
                        /\ SchemaProperties[pidx] = "AdditionalIdentifiers")

(***************************************************************************)
(* Properties of process_granule (Spec, SpecCalls)                         *)
(***************************************************************************)
RECURSIVE PostOrder(_, _), PostOrderOfAll(_, _)
\* the variables <<group, index>> of the subtree of g: those of the subtrees
\* of its child groups, child by child, then its own
PostOrder(f, g) ==
    PostOrderOfAll(f, Children(f, g)) \o [i \in 1..Len(f.vars[g]) |-> <<g, i>>]

PostOrderOfAll(f, gs) ==
    IF gs = <<>> THEN <<>> ELSE PostOrder(f, Head(gs)) \o PostOrderOfAll(f, Tail(gs))

\* one record per variable of the file, in post-order
ExpectedRecords(f) ==
    LET order == PostOrder(f, 1)
    IN  [k \in 1..Len(order) |->
            process_variable(VarAt(f, order[k][1], order[k][2]), cfnames).meta]

VarCount(f) == Len(PostOrder(f, 1))

RecordNames(records) == [k \in 1..Len(records) |-> ValueAt(records[k], "Name").chars]

\* C3: the list process_granule returns holds one record per variable of the
\* file, in post-order (the variables of the subtrees of the child groups,
\* in the order of the child groups, before the variables of the group, in
\* their order), and the traversal has entered every group exactly once; a
\* root with variable A and one child group with variable B gives [B, A].
C3_PostOrder ==
    \A k \in 1..Len(returned) :
        LET call == returned[k]
        IN  call.outcome = "returned" =>
              /\ heap[call.list] = ExpectedRecords(call.file)
              /\ Len(call.visited) = call.file.n
              /\ \A g \in 1..call.file.n :
                     \E i \in 1..Len(call.visited) : call.visited[i] = g
              /\ (call.file.n = 2 /\ call.file.vars = << <<"A">>, <<"B">> >>) =>
                     RecordNames(heap[call.list])
                         = << <<"/", "a", "_", "b", "/", "B">>, <<"A">> >>

C3_Witness ==
    /\ Len(returned) = 1
    /\ returned[1].outcome = "returned"
    /\ returned[1].file.n = 3
    /\ returned[1].file.parent = <<0, 1, 1>>
    /\ returned[1].file.vars = << <<"A", "B">>, <<"B">>, <<"A">> >>
    /\ RecordNames(heap[returned[1].list])
           = << <<"/", "a", "_", "b", "/", "B">>, <<"/", "g", "3", "/", "A">>,
                <<"A">>, <<"B">> >>

\* a content type that is no key of the enumeration
BadContentType(v) ==
    /\ HasAttr(v, A_coverage_content_type)
    /\ \A i \in 1..Len(VariableTypes) :
           VariableTypes[i][1] # Strip(GetAttr(v, A_coverage_content_type).chars)

HasHardError(f) ==
    \E g \in 1..f.n : \E i \in 1..Len(f.vars[g]) :
        Unmapped(VarAt(f, g, i)) \/ BadContentType(VarAt(f, g, i))

\* C7: when a variable of the file has an unmapped element type or a
\* content type outside the enumeration, process_granule raises and returns
\* no records; what process_granule returns is the records of all the
\* variables of the file.
C7_HardErrorReturnsNothing ==
    \A k \in 1..Len(returned) :
        LET call == returned[k]
        IN  /\ HasHardError(call.file) => call.outcome = "raised"
            /\ call.outcome = "returned" =>
                   heap[call.list] = ExpectedRecords(call.file)

\* An exception raised while a record is built leaves process_granule: the
\* call returns the records of all the variables or raises.
RaisedErrorsSurface ==
    \A k \in 1..Len(returned) :
        LET call == returned[k]
            order == PostOrder(call.file, 1)
        IN  /\ call.outcome = "raised" <=>
                   \E j \in 1..Len(order) :
                       process_variable(VarAt(call.file, order[j][1], order[j][2]),
                                        cfnames).exc # ""
            /\ call.outcome = "returned" =>
                   heap[call.list] = ExpectedRecords(call.file)

\* C10: the list a process_granule call returned holds exactly the records
\* of that call's file, as many as the file has variables, at the return and
\* ever after, whatever calls came before and come after; no two calls
\* return the same list object.
C10_NoSharedAccumulator ==
    \A k \in 1..Len(returned) :
        LET call == returned[k]
        IN  call.outcome = "returned" =>
              /\ Len(heap[call.list]) = VarCount(call.file)
              /\ heap[call.list] = ExpectedRecords(call.file)
              /\ \A j \in 1..Len(returned) :
                     (j # k /\ returned[j].outcome = "returned") =>
                         returned[j].list # call.list
              /\ \A i \in 1..Len(stack) : stack[i].records # call.list

C10_Witness ==
    /\ Len(returned) = MaxCalls
    /\ \A k \in 1..Len(returned) :
           /\ returned[k].outcome = "returned"
           /\ Len(heap[returned[k].list]) = VarCount(returned[k].file)
           /\ VarCount(returned[k].file) > 0
====
